---------------------------- MODULE Spec2Model ----------------------------
(***************************************************************************)
(* CrowdSense people-counter dashboard.                                    *)
(*                                                                         *)
(* The page (TimeSeriesPage) reads the remote table "people_counter" once  *)
(* and hands the rows to the client component TimeSeriesClient, which      *)
(* exists in two variants: the gated one (realtime polling behind a        *)
(* password dialog, row cap 100) and the always-on one (polling from       *)
(* mount, no row cap).  The model covers the remote query, the polling     *)
(* life cycle, the fetch continuation, the derived view values and the     *)
(* CSV export.                                                             *)
(*                                                                         *)
(* Three specifications share the variables:                               *)
(*   Spec       the polling life cycle of both variants                    *)
(*   SpecView   the derived view values and the CSV export                 *)
(*   SpecQuery  the capped read against a table larger than the cap        *)
(***************************************************************************)
EXTENDS Integers, Sequences, FiniteSets, TLC

VARIABLES
    variant,            \* "gated" | "alwaysOn": which TimeSeriesClient is shipped
    page,               \* "loading" | "failed" | "rendered" | "mounted" | "unmounted"
    table,              \* the remote table people_counter: a set of rows
    dataState,          \* useState<TimeSeriesData[]>
    threshold,          \* useState(100) / useState(10)
    realtimeEnabled,    \* useState(false), gated variant
    showPasswordModal,  \* useState(false), gated variant
    password,           \* useState(""), gated variant: a sequence of characters
    refreshing,         \* useState(false)
    lastRefreshed,      \* useState<Date | null>(null): <<>> is null, <<t>> a Date
    interval,           \* TRUE while the setInterval timer of the effect is armed
    started,            \* number of invocations of the async fetch function so far
    inflight,           \* the invocations suspended at their await
    clock,              \* number of 5-second periods elapsed since mount
    csv,                \* the document of the last export: <<>> before any export
    lastOp,             \* the handler that ran last
    sideEffect,         \* what that handler showed outside the state: alert, log, download
    shownFetch          \* history: the invocation whose rows dataState holds, 0 = the page's read

vars == <<variant, page, table, dataState, threshold, realtimeEnabled,
          showPasswordModal, password, refreshing, lastRefreshed, interval,
          started, inflight, clock, csv, lastOp, sideEffect, shownFetch>>

-----------------------------------------------------------------------------
(* Bounds of the model *)

\* rows the table may hold under Spec
MaxRows == 1
\* rows a table may hold under SpecView
MaxLen == 3
\* invocations of the fetch function under Spec
MaxFetches == 2
\* 5-second periods under Spec
MaxClock == 2
\* rows the table may hold under SpecQuery (above the cap)
MaxBulkRows == 102

(* Program constants *)

\* .limit(100)
RowCap == 100
\* useState(100)
GatedThreshold == 100
\* useState(10)
AlwaysOnThreshold == 10

-----------------------------------------------------------------------------
(* Time.  A created_at is an ISO-8601 text in UTC with microseconds, held   *)
(* as its fields.  A Date is an instant with millisecond precision, held as *)
(* the day since 1970-01-01 and the millisecond of that day (milliseconds *)
(* since the epoch exceed 32 bits).                                        *)

Iso(y, mo, d, h, mi, s, us) ==
    [year |-> y, month |-> mo, day |-> d, hour |-> h, minute |-> mi,
     second |-> s, micro |-> us]

\* days since 1970-01-01 of a proleptic Gregorian date
DaysFromCivil(y0, m, d) ==
    LET y   == IF m <= 2 THEN y0 - 1 ELSE y0
        era == y \div 400
        yoe == y - era * 400
        mp  == IF m > 2 THEN m - 3 ELSE m + 9
        doy == (153 * mp + 2) \div 5 + d - 1
        doe == yoe * 365 + yoe \div 4 - yoe \div 100 + doy
    IN  era * 146097 + doe - 719468

\* the proleptic Gregorian date of a day since 1970-01-01
CivilFromDays(z0) ==
    LET z   == z0 + 719468
        era == z \div 146097
        doe == z - era * 146097
        yoe == (doe - doe \div 1460 + doe \div 36524 - doe \div 146096) \div 365
        doy == doe - (365 * yoe + yoe \div 4 - yoe \div 100)
        mp  == (5 * doy + 2) \div 153
        d   == doy - (153 * mp + 2) \div 5 + 1
        m   == IF mp < 10 THEN mp + 3 ELSE mp - 9
        y   == yoe + era * 400 + (IF m <= 2 THEN 1 ELSE 0)
    IN  [year |-> y, month |-> m, day |-> d]

\* DateTime.fromISO(s).toJSDate(): the fraction is cut to milliseconds
fromISO(s) ==
    [day |-> DaysFromCivil(s.year, s.month, s.day),
     ms  |-> ((s.hour * 60 + s.minute) * 60 + s.second) * 1000 + s.micro \div 1000]

\* Date.prototype.toISOString(): YYYY-MM-DDTHH:mm:ss.sssZ
toISOString(t) ==
    LET c == CivilFromDays(t.day)
    IN  Iso(c.year, c.month, c.day,
            t.ms \div 3600000, (t.ms \div 60000) % 60, (t.ms \div 1000) % 60,
            (t.ms % 1000) * 1000)

\* dt.toFormat("HH:mm:ss")
toFormatHms(s) == <<s.hour, s.minute, s.second>>

\* the sign of a.getTime() - b.getTime()
getTimeDiff(a, b) ==
    IF a.day # b.day THEN (IF a.day < b.day THEN -1 ELSE 1)
    ELSE IF a.ms # b.ms THEN (IF a.ms < b.ms THEN -1 ELSE 1)
    ELSE 0

\* the database's order of two created_at values (microsecond precision)
IsoKey(s) == <<s.year, s.month, s.day, s.hour, s.minute, s.second, s.micro>>

RECURSIVE LexLess(_, _, _)
LexLess(a, b, i) ==
    IF i > Len(a) THEN FALSE
    ELSE IF a[i] # b[i] THEN a[i] < b[i]
    ELSE LexLess(a, b, i + 1)

CreatedBefore(r, q) == LexLess(IsoKey(r.created_at), IsoKey(q.created_at), 1)

-----------------------------------------------------------------------------
(* The remote table and its read.                                          *)

Reading(i, t, c) == [id |-> i, created_at |-> t, people_count |-> c]

\* created_at values of the rows ingested under Spec and SpecView: two that
\* differ only below the millisecond, and one across a leap day
Times ==
    << Iso(2024, 2, 29, 23, 59, 59, 999000),
       Iso(2024, 2, 29, 23, 59, 59, 999500),
       Iso(2024, 3, 1, 0, 0, 0, 0) >>

Counts == {0, 12}

\* .order("created_at", { ascending: true }): every order of the rows in which
\* created_at never decreases (the database fixes no order among equal keys)
RECURSIVE OrderAscending(_)
OrderAscending(S) ==
    LET before == [r \in S |-> Cardinality({q \in S : CreatedBefore(q, r)})]
        first  == {r \in S : before[r] = 0}
    IN  IF S = {} THEN {<<>>}
        ELSE IF Cardinality({before[r] : r \in S}) = Cardinality(S)
        \* no two rows have equal keys: the one order, row i has i - 1 rows before it
        THEN {[i \in 1..Cardinality(S) |-> CHOOSE r \in S : before[r] = i - 1]}
        ELSE UNION {{<<r>> \o rest : rest \in OrderAscending(S \ {r})} : r \in first}

\* .limit(n): the first n rows of the ordered result
Limit(s, n) == IF Len(s) <= n THEN s ELSE SubSeq(s, 1, n)

\* from("people_counter").select(...).order(...).limit(100)
CappedQuery(T) == {Limit(s, RowCap) : s \in OrderAscending(T)}

\* from("people_counter").select(...).order(...)
UncappedQuery(T) == OrderAscending(T)

\* the read fetchData issues in each variant
FetchQuery(v, T) == IF v = "gated" THEN CappedQuery(T) ELSE UncappedQuery(T)

-----------------------------------------------------------------------------
(* Initial state: the page has not read the table yet.                     *)

InitClient ==
    /\ threshold = (IF variant = "gated" THEN GatedThreshold ELSE AlwaysOnThreshold)
    /\ realtimeEnabled = FALSE
    /\ showPasswordModal = FALSE
    /\ password = <<>>
    /\ refreshing = FALSE
    /\ lastRefreshed = <<>>
    /\ interval = FALSE
    /\ started = 0
    /\ inflight = {}
    /\ clock = 0
    /\ csv = <<>>
    /\ lastOp = "none"
    /\ sideEffect = "none"
    /\ shownFetch = 0

Init ==
    /\ variant \in {"gated", "alwaysOn"}
    /\ page = "loading"
    /\ table = {}
    /\ dataState = <<>>
    /\ InitClient

\* the row the sensor inserts next: ids count up and created_at never goes back
Ingest(c, k) ==
    /\ Cardinality(table) < MaxRows
    /\ k \in 1..Len(Times)
    /\ \A r \in table : ~CreatedBefore(Reading(0, Times[k], 0), r)
    /\ table' = table \cup {Reading(Cardinality(table) + 1, Times[k], c)}
    /\ UNCHANGED <<variant, shownFetch, page, dataState, threshold, realtimeEnabled,
                   showPasswordModal, password, refreshing, lastRefreshed,
                   interval, started, inflight, clock, csv, lastOp, sideEffect>>

\* TimeSeriesPage: the capped read; a failure renders the error paragraph,
\* a success renders TimeSeriesClient with the rows (the client library
\* gives rows whenever it gives no error, so data ?? [] is data)
PageLoad ==
    /\ page = "loading"
    /\ \/ /\ page' = "failed"
          /\ sideEffect' = "console.error"
          /\ UNCHANGED dataState
       \/ /\ \E data \in CappedQuery(table) : dataState' = data
          /\ page' = "rendered"
          /\ sideEffect' = "none"
    /\ lastOp' = "PageLoad"
    /\ UNCHANGED <<variant, shownFetch, table, threshold, realtimeEnabled, showPasswordModal, password,
                   refreshing, lastRefreshed, interval, started, inflight,
                   clock, csv>>

-----------------------------------------------------------------------------
(* The access gate's secret.  A text is a sequence of characters.          *)

Upper == <<"A","B","C","D","E","F","G","H","I","J","K","L","M",
           "N","O","P","Q","R","S","T","U","V","W","X","Y","Z">>
Lower == <<"a","b","c","d","e","f","g","h","i","j","k","l","m",
           "n","o","p","q","r","s","t","u","v","w","x","y","z">>
Digit == <<"0","1","2","3","4","5","6","7","8","9">>

Base64Alphabet == Upper \o Lower \o Digit \o <<"+", "/">>

\* the 6-bit value of a base64 character; the padding "=" counts as 0
Sextet(c) ==
    IF c = "=" THEN 0
    ELSE (CHOOSE i \in 1..Len(Base64Alphabet) : Base64Alphabet[i] = c) - 1

\* String.fromCharCode for the codes of letters and digits
fromCharCode(n) ==
    IF n >= 97 /\ n <= 122 THEN Lower[n - 96]
    ELSE IF n >= 65 /\ n <= 90 THEN Upper[n - 64]
    ELSE IF n >= 48 /\ n <= 57 THEN Digit[n - 47]
    ELSE "#" \o ToString(n)

\* atob: every four characters give three bytes, less one per padding "="
RECURSIVE atob(_)
atob(s) ==
    IF Len(s) < 4 THEN <<>>
    ELSE LET v == Sextet(s[1]) * 262144 + Sextet(s[2]) * 4096
                  + Sextet(s[3]) * 64 + Sextet(s[4])
             bytes == <<v \div 65536, (v \div 256) % 256, v % 256>>
             pad == Cardinality({i \in 3..4 : s[i] = "="})
         IN  [i \in 1..(3 - pad) |-> fromCharCode(bytes[i])]
             \o atob(SubSeq(s, 5, Len(s)))

EncodedSecret == <<"Y","m","F","q","Z","X","I","=">>

\* atob("YmFqZXI=")
Secret == atob(EncodedSecret)

\* what the user may type into the password field
Passwords ==
    { <<>>, <<"b","a","j","e","r">>, <<"b","a","j","e">>, EncodedSecret }

-----------------------------------------------------------------------------
(* The fetch function and the polling effect.                              *)

\* the async function fetchData returns, up to its await:
\* setRefreshing(true), then the read is sent
InvokeFetch ==
    /\ started < MaxFetches
    /\ refreshing' = TRUE
    /\ started' = started + 1
    /\ inflight' = inflight \cup
                     {[id |-> started + 1, status |-> "pending", data |-> <<>>]}

\* fetchData(setRefreshing, setDataState, setLastRefreshed) as the gated
\* effect and its timer callback write it: the async function is made and
\* dropped, never called
MakeFetchOnly == UNCHANGED <<refreshing, started, inflight>>

\* what the effect and the timer callback do about fetching, per variant
TriggerFetch == IF variant = "gated" THEN MakeFetchOnly ELSE InvokeFetch

CleanupLeavesTimerArmed == UNCHANGED interval

\* return () => clearInterval(interval)
Cleanup == interval' = FALSE

\* the effect body once polling is on: fetch, then setInterval(..., 5000)
StartPolling ==
    /\ TriggerFetch
    /\ interval' = TRUE

\* the client component mounts and its effect runs: the always-on variant
\* starts polling, the gated variant returns early (realtimeEnabled is false)
Mount ==
    /\ page = "rendered"
    /\ page' = "mounted"
    /\ IF variant = "alwaysOn" THEN StartPolling
       ELSE UNCHANGED <<refreshing, started, inflight, interval>>
    /\ lastOp' = "Mount"
    /\ sideEffect' = "none"
    /\ UNCHANGED <<variant, shownFetch, table, dataState, threshold, realtimeEnabled,
                   showPasswordModal, password, lastRefreshed, clock, csv>>

\* five seconds pass with the timer armed: its callback runs
TimerTick ==
    /\ interval
    /\ clock < MaxClock
    /\ clock' = clock + 1
    /\ TriggerFetch
    /\ lastOp' = "TimerTick"
    /\ sideEffect' = "none"
    /\ UNCHANGED <<variant, shownFetch, page, table, dataState, threshold, realtimeEnabled,
                   showPasswordModal, password, lastRefreshed, interval, csv>>

\* five seconds pass with no timer armed
TimePasses ==
    /\ ~interval
    /\ page \in {"mounted", "unmounted"}
    /\ clock < MaxClock
    /\ clock' = clock + 1
    /\ lastOp' = "TimePasses"
    /\ sideEffect' = "none"
    /\ UNCHANGED <<variant, shownFetch, page, table, dataState, threshold, realtimeEnabled,
                   showPasswordModal, password, refreshing, lastRefreshed,
                   interval, started, inflight, csv>>

\* the remote side answers a pending read: a failure, or the rows it holds now
Respond(f) ==
    /\ f \in inflight
    /\ f.status = "pending"
    /\ \/ inflight' = (inflight \ {f}) \cup
                        {[id |-> f.id, status |-> "error", data |-> <<>>]}
       \/ \E rows \in FetchQuery(variant, table) :
             inflight' = (inflight \ {f}) \cup
                           {[id |-> f.id, status |-> "ok", data |-> rows]}
    /\ UNCHANGED <<variant, shownFetch, page, table, dataState, threshold, realtimeEnabled,
                   showPasswordModal, password, refreshing, lastRefreshed,
                   interval, started, clock, csv, lastOp, sideEffect>>

ApplyResponseIgnoringError(f) ==
    /\ sideEffect' = (IF f.status = "error" THEN "console.error" ELSE "none")
    /\ dataState' = f.data
    /\ lastRefreshed' = <<clock>>
    /\ shownFetch' = f.id

\* if (error) console.error(...) else { setDataState(data ?? []); setLastRefreshed(new Date()) }
ApplyResponse(f) ==
    IF f.status = "error"
    THEN /\ sideEffect' = "console.error"
         /\ UNCHANGED <<dataState, lastRefreshed, shownFetch>>
    ELSE /\ sideEffect' = "none"
         /\ dataState' = f.data
         /\ lastRefreshed' = <<clock>>
         /\ shownFetch' = f.id

ResumeShowsErrorParagraph(f) ==
    /\ f \in inflight
    /\ f.status # "pending"
    /\ ApplyResponse(f)
    /\ page' = (IF f.status = "error" THEN "failed" ELSE page)
    /\ refreshing' = FALSE
    /\ inflight' = inflight \ {f}
    /\ lastOp' = "Resume"
    /\ UNCHANGED <<variant, table, threshold, realtimeEnabled,
                   showPasswordModal, password, interval, started, clock, csv>>

\* the fetch function after its await: the setters are called whatever has
\* happened to the component meanwhile; the state cells hold what the
\* setters were last given
Resume(f) ==
    /\ f \in inflight
    /\ f.status # "pending"
    /\ ApplyResponse(f)
    /\ refreshing' = FALSE
    /\ inflight' = inflight \ {f}
    /\ lastOp' = "Resume"
    /\ UNCHANGED <<variant, page, table, threshold, realtimeEnabled,
                   showPasswordModal, password, interval, started, clock, csv>>

\* the component unmounts: the effect's cleanup runs
Unmount ==
    /\ page = "mounted"
    /\ page' = "unmounted"
    /\ Cleanup
    /\ lastOp' = "Unmount"
    /\ sideEffect' = "none"
    /\ UNCHANGED <<variant, shownFetch, table, dataState, threshold, realtimeEnabled,
                   showPasswordModal, password, refreshing, lastRefreshed,
                   started, inflight, clock, csv>>

-----------------------------------------------------------------------------
(* The gated variant's controls.                                           *)

GatedUi == variant = "gated" /\ page = "mounted"

\* the realtime button: disable when enabled (the effect's cleanup runs and
\* the effect returns early), else open the password dialog
ToggleClick ==
    /\ GatedUi
    /\ IF realtimeEnabled
       THEN /\ realtimeEnabled' = FALSE
            /\ Cleanup
            /\ UNCHANGED showPasswordModal
       ELSE /\ showPasswordModal' = TRUE
            /\ UNCHANGED <<realtimeEnabled, interval>>
    /\ lastOp' = "ToggleClick"
    /\ sideEffect' = "none"
    /\ UNCHANGED <<variant, shownFetch, page, table, dataState, threshold, password,
                   refreshing, lastRefreshed, started, inflight, clock, csv>>

\* onChange of the password field
PasswordInput(p) ==
    /\ GatedUi
    /\ showPasswordModal
    /\ password' = p
    /\ lastOp' = "PasswordInput"
    /\ sideEffect' = "none"
    /\ UNCHANGED <<variant, shownFetch, page, table, dataState, threshold, realtimeEnabled,
                   showPasswordModal, refreshing, lastRefreshed, interval,
                   started, inflight, clock, csv>>

\* Cancel, and the dialog's onClose
CancelClick ==
    /\ GatedUi
    /\ showPasswordModal
    /\ showPasswordModal' = FALSE
    /\ lastOp' = "CancelClick"
    /\ sideEffect' = "none"
    /\ UNCHANGED <<variant, shownFetch, page, table, dataState, threshold, realtimeEnabled,
                   password, refreshing, lastRefreshed, interval, started,
                   inflight, clock, csv>>

PasswordMatchesUndecoded(p) == p = EncodedSecret

\* password === atob("YmFqZXI=")
PasswordMatches(p) == p = Secret

\* Confirm: on a match enable realtime and close the dialog (the effect then
\* runs with realtimeEnabled true), else alert
ConfirmClick ==
    /\ GatedUi
    /\ showPasswordModal
    /\ IF PasswordMatches(password)
       THEN /\ realtimeEnabled' = TRUE
            /\ showPasswordModal' = FALSE
            /\ StartPolling
            /\ sideEffect' = "none"
       ELSE /\ sideEffect' = "alert"
            /\ UNCHANGED <<realtimeEnabled, showPasswordModal, refreshing,
                           started, inflight, interval>>
    /\ lastOp' = "ConfirmClick"
    /\ UNCHANGED <<variant, shownFetch, page, table, dataState, threshold, password,
                   lastRefreshed, clock, csv>>

-----------------------------------------------------------------------------
Next ==
    \/ \E c \in Counts, k \in 1..Len(Times) : Ingest(c, k)
    \/ PageLoad
    \/ Mount
    \/ TimerTick
    \/ TimePasses
    \/ \E f \in inflight : Respond(f)
    \/ \E f \in inflight : Resume(f)
    \/ Unmount
    \/ ToggleClick
    \/ \E p \in Passwords : PasswordInput(p)
    \/ CancelClick
    \/ ConfirmClick

Spec == Init /\ [][Next]_vars

-----------------------------------------------------------------------------
(* The derived view values (useMemo over the state) and the CSV export.    *)

\* dataState.map(d => ({ id, time, value, timestamp }))
chartData ==
    [i \in 1..Len(dataState) |->
        [id        |-> dataState[i].id,
         time      |-> toFormatHms(dataState[i].created_at),
         value     |-> dataState[i].people_count,
         timestamp |-> fromISO(dataState[i].created_at)]]

compareTimestampsAscending(a, b) == getTimeDiff(a.timestamp, b.timestamp)

\* (a, b) => b.timestamp.getTime() - a.timestamp.getTime()
compareTimestamps(a, b) == getTimeDiff(b.timestamp, a.timestamp)

\* Array.prototype.sort is stable: x goes after every element that does not
\* compare greater than it
RECURSIVE InsertStable(_, _)
InsertStable(s, x) ==
    IF s = <<>> THEN <<x>>
    ELSE IF compareTimestamps(s[Len(s)], x) <= 0 THEN Append(s, x)
    ELSE Append(InsertStable(SubSeq(s, 1, Len(s) - 1), x), s[Len(s)])

RECURSIVE SortStable(_)
SortStable(s) ==
    IF s = <<>> THEN <<>>
    ELSE InsertStable(SortStable(SubSeq(s, 1, Len(s) - 1)), s[Len(s)])

\* [...chartData].sort(...)
tableData == SortStable(chartData)

exceedsOrEquals(v, t) == v >= t

\* point.value > threshold
exceeds(v, t) == v > t

\* chartData.some((point) => point.value > threshold)
isThresholdExceeded ==
    \E i \in 1..Len(chartData) : exceeds(chartData[i].value, threshold)

NoData == [nodata |-> TRUE, value |-> 0]
Value(v) == [nodata |-> FALSE, value |-> v]

orNoDataWhenFalsy(present, v) == IF present /\ v # 0 THEN Value(v) ELSE NoData

\* x ?? "N/A": only a missing x gives the marker
orNoData(present, v) == IF present THEN Value(v) ELSE NoData

\* chartData.at(-1)?.value ?? "N/A"
latestValue ==
    IF Len(chartData) = 0 THEN orNoData(FALSE, 0)
    ELSE orNoData(TRUE, chartData[Len(chartData)].value)

\* `"${cell}"`
Quote(text) == [open |-> "\"", text |-> text, close |-> "\""]

exportDataToCsvWithoutHeader(points) ==
    [k \in 1..Len(points) |->
        <<Quote(ToString(points[k].value)),
          Quote(toISOString(points[k].timestamp))>>]

\* the document: its lines (joined by "\n"), each the cells of a row (joined
\* by ","); a number is written as its decimal text, a timestamp as its ISO text
exportDataToCsv(points) ==
    LET header == <<"People Count", "Timestamp (ISO)">>
        rows   == [i \in 1..Len(points) |->
                      <<ToString(points[i].value), toISOString(points[i].timestamp)>>]
    IN  [k \in 1..(Len(points) + 1) |->
            LET r == IF k = 1 THEN header ELSE rows[k - 1]
            IN  [c \in 1..Len(r) |-> Quote(r[c])]]

\* thresholds the user may enter: the 0-100 hint of the field binds nothing
Thresholds == {-1, 0, 11, 12, 101}

\* onChange of the threshold field: setThreshold(Number(e.target.value))
SetThreshold(t) ==
    /\ page = "mounted"
    /\ threshold' = t
    /\ lastOp' = "SetThreshold"
    /\ sideEffect' = "none"
    /\ UNCHANGED <<variant, shownFetch, page, table, dataState, realtimeEnabled,
                   showPasswordModal, password, refreshing, lastRefreshed,
                   interval, started, inflight, clock, csv>>

\* the export button: exportDataToCsv(chartData)()
ExportClick ==
    /\ page = "mounted"
    /\ csv' = exportDataToCsv(chartData)
    /\ lastOp' = "ExportClick"
    /\ sideEffect' = "download"
    /\ UNCHANGED <<variant, shownFetch, page, table, dataState, threshold, realtimeEnabled,
                   showPasswordModal, password, refreshing, lastRefreshed,
                   interval, started, inflight, clock>>

\* the tables of at most n rows with ids 1..n
RECURSIVE TablesUpTo(_)
TablesUpTo(n) ==
    IF n = 0 THEN {{}}
    ELSE LET smaller == TablesUpTo(n - 1)
         IN  smaller \cup
             {T \cup {Reading(n, Times[k], c)} :
                 T \in {U \in smaller : Cardinality(U) = n - 1},
                 k \in 1..Len(Times), c \in Counts}

\* SpecView: the table holds any rows when the page reads it; the component
\* then mounts over the rows read, and the user sets thresholds and exports
InitView ==
    /\ variant \in {"gated", "alwaysOn"}
    /\ page = "loading"
    /\ table \in TablesUpTo(MaxLen)
    /\ dataState = <<>>
    /\ InitClient

NextView ==
    \/ PageLoad
    \/ Mount
    \/ \E t \in Thresholds : SetThreshold(t)
    \/ ExportClick

SpecView == InitView /\ [][NextView]_vars

-----------------------------------------------------------------------------
(* SpecQuery: the sensor fills the table past the cap, then the page reads. *)

\* created_at of the i-th row of a long recording: one row per second
BulkTime(i) == Iso(2025, 5, 1, 8, i \div 60, i % 60, 0)

BulkIngest(k) ==
    /\ page = "loading"
    /\ Cardinality(table) + k <= MaxBulkRows
    /\ table' = table \cup
                  {Reading(i, BulkTime(i), i % 16) :
                      i \in (Cardinality(table) + 1)..(Cardinality(table) + k)}
    /\ UNCHANGED <<variant, shownFetch, page, dataState, threshold, realtimeEnabled,
                   showPasswordModal, password, refreshing, lastRefreshed,
                   interval, started, inflight, clock, csv, lastOp, sideEffect>>

NextQuery ==
    \/ \E k \in {1, 25} : BulkIngest(k)
    \/ PageLoad

SpecQuery == Init /\ [][NextQuery]_vars

-----------------------------------------------------------------------------
(* Properties.                                                             *)

\* the Polling Controller's state: Polling while the mounted component has
\* polling on (always, or by the realtime switch), Idle otherwise
Polling == page = "mounted" /\ (variant = "alwaysOn" \/ realtimeEnabled)

\* a step in which the fetch function resumes after its await with response f
Resumes(f) == f \in inflight /\ f.status # "pending" /\ inflight' = inflight \ {f}

Range(s) == {s[i] : i \in 1..Len(s)}

\* C1: in both variants every step from Idle to Polling starts one fetch
\* invocation in that same step, and every 5-second tick taken while Polling
\* starts one more.
C1_FetchOnEnableAndOnEveryTick ==
    [][ /\ (~Polling /\ Polling') => started' = started + 1
        /\ (Polling /\ interval /\ clock' = clock + 1) => started' = started + 1
      ]_vars

\* C2: whenever the controller is Idle the timer is not armed, and no step
\* that starts and ends in Idle (however many 5-second periods pass) starts a
\* fetch invocation.
C2_NoFetchAfterTeardown ==
    [][ /\ ~Polling' => ~interval'
        /\ (~Polling /\ ~Polling') => started' = started
      ]_vars

\* C2 witness: after the unmount further periods have passed and a fetch had
\* been started before it.
C2_Witness ==
    /\ page = "unmounted"
    /\ started >= 1
    /\ lastOp = "TimePasses"
    /\ clock >= 2

\* C3: a fetch that completes with a failure leaves readings and
\* lastRefreshed as they were, clears refreshing, logs, and starts no fetch.
C3_FailureLeavesStateUnchanged ==
    [][ \A f \in inflight :
          (Resumes(f) /\ f.status = "error") =>
             /\ dataState' = dataState
             /\ lastRefreshed' = lastRefreshed
             /\ refreshing' = FALSE
             /\ started' = started
             /\ sideEffect' = "console.error"
      ]_vars

\* C3 witness: a failure has just been handled while readings and
\* lastRefreshed held the result of an earlier success.
C3_Witness ==
    /\ lastOp = "Resume"
    /\ sideEffect = "console.error"
    /\ dataState # <<>>
    /\ lastRefreshed # <<>>
    /\ ~refreshing

\* the password the gate is meant to accept
GatePassword == <<"b", "a", "j", "e", "r">>

\* a step of the dialog's Confirm button
Confirms == GatedUi /\ showPasswordModal /\ lastOp' = "ConfirmClick"

\* C4: in the gated variant Confirm with a password other than the secret
\* keeps realtime off, arms no timer, starts no fetch, alerts and leaves the
\* readings alone; realtime goes from off to on only by Confirm with the secret.
C4_WrongPasswordStaysIdle ==
    [][ /\ (Confirms /\ password # GatePassword) =>
             /\ ~realtimeEnabled'
             /\ ~Polling'
             /\ ~interval'
             /\ started' = started
             /\ sideEffect' = "alert"
             /\ dataState' = dataState
        /\ (~realtimeEnabled /\ realtimeEnabled') =>
             (Confirms /\ password = GatePassword)
      ]_vars

\* C4 witness: Confirm has just rejected a typed password.
C4_Witness ==
    /\ lastOp = "ConfirmClick"
    /\ sideEffect = "alert"
    /\ password # <<>>
    /\ showPasswordModal
    /\ ~realtimeEnabled

\* C5: the rows a successful capped read hands to the component are the
\* min(n, 100) most recent rows of the table in ascending created_at order:
\* no row left out is later than a row returned.
C5_CappedFetchReturnsMostRecent ==
    (lastOp = "PageLoad" /\ page = "rendered") =>
        /\ Len(dataState) = (IF Cardinality(table) <= RowCap
                             THEN Cardinality(table) ELSE RowCap)
        /\ Range(dataState) \subseteq table
        /\ \A i \in 1..Len(dataState) : \A j \in 1..Len(dataState) :
              i < j => ~CreatedBefore(dataState[j], dataState[i])
        /\ \A r \in Range(dataState) : \A q \in table \ Range(dataState) :
              ~CreatedBefore(r, q)

\* C6: once the controller is Idle again after a teardown, a response that
\* arrives changes none of readings, lastRefreshed and refreshing.
C6_LateResponseIgnored ==
    [][ \A f \in inflight :
          (~Polling /\ Resumes(f)) =>
             /\ dataState' = dataState
             /\ lastRefreshed' = lastRefreshed
             /\ refreshing' = refreshing
      ]_vars

\* the position of point x in sequence s (ids are unique)
IndexOf(s, x) == CHOOSE i \in 1..Len(s) : s[i].id = x.id

IsPermutation(s, t) == Len(s) = Len(t) /\ Range(s) = Range(t)

\* points with equal timestamps stand in the table in their chart order
TiesKeepChartOrder(tbl, chart) ==
    \A i \in 1..Len(tbl) : \A j \in 1..Len(tbl) :
        (i < j /\ tbl[i].timestamp = tbl[j].timestamp) =>
            IndexOf(chart, tbl[i]) < IndexOf(chart, tbl[j])

Later(a, b) ==
    a.timestamp.day > b.timestamp.day
    \/ (a.timestamp.day = b.timestamp.day /\ a.timestamp.ms > b.timestamp.ms)

\* C7 as stated: the table sequence is a permutation of the chart sequence,
\* each timestamp strictly greater than its successor's, ties in chart order.
C7_TableStrictlyDescending ==
    LET tbl == tableData
        chart == chartData
    IN  /\ IsPermutation(tbl, chart)
        /\ \A i \in 1..(Len(tbl) - 1) : Later(tbl[i], tbl[i + 1])
        /\ TiesKeepChartOrder(tbl, chart)

\* C7 amended: the table sequence is a permutation of the chart sequence in
\* which no timestamp is smaller than its successor's, and points with equal
\* timestamps keep their chart order.
C7_TableDescendingStable ==
    LET tbl == tableData
        chart == chartData
    IN  /\ IsPermutation(tbl, chart)
        /\ \A i \in 1..(Len(tbl) - 1) : ~Later(tbl[i + 1], tbl[i])
        /\ TiesKeepChartOrder(tbl, chart)

\* C7 witness: three points, two of them with one timestamp, the third with
\* another, and the table differs from the chart.
C7_Witness ==
    /\ page = "mounted"
    /\ Len(chartData) = 3
    /\ chartData[1].timestamp = chartData[2].timestamp
    /\ Later(chartData[3], chartData[2])
    /\ tableData[1] = chartData[3]
    /\ tableData # chartData

RECURSIVE MaxValue(_)
MaxValue(s) ==
    IF Len(s) = 1 THEN s[1].value
    ELSE LET m == MaxValue(SubSeq(s, 2, Len(s)))
         IN  IF s[1].value >= m THEN s[1].value ELSE m

\* C8: the alert condition holds exactly when there are readings and their
\* greatest people_count is strictly greater than the threshold, whatever
\* integer the threshold is.
C8_ExceededIffMaxAboveThreshold ==
    LET chart == chartData
    IN  isThresholdExceeded <=> (Len(chart) > 0 /\ MaxValue(chart) > threshold)

\* C8 witness: the threshold was set to the greatest reading, and the alert
\* condition is off.
C8_Witness ==
    /\ lastOp = "SetThreshold"
    /\ Len(chartData) >= 2
    /\ MaxValue(chartData) = threshold
    /\ ~isThresholdExceeded

\* C9: the latest value is the people_count of a reading than which none is
\* later (the last one read), also when that count is 0, and it is the
\* no-data marker exactly when there are no readings.
C9_LatestValueIsNewest ==
    /\ latestValue.nodata <=> dataState = <<>>
    /\ dataState # <<>> =>
         /\ latestValue.value = dataState[Len(dataState)].people_count
         /\ \A q \in Range(dataState) :
               ~CreatedBefore(dataState[Len(dataState)], q)

\* C9 witness: the newest reading counts 0 and an older one does not.
C9_Witness ==
    /\ page = "mounted"
    /\ Len(dataState) >= 2
    /\ CreatedBefore(dataState[1], dataState[Len(dataState)])
    /\ dataState[1].people_count # 0
    /\ dataState[Len(dataState)].people_count = 0
    /\ latestValue = Value(0)

\* C10: the exported document has one line more than there are points: the
\* header first, then per point its value and its timestamp in ISO form,
\* which parses back to the point's timestamp; every cell is double-quoted.
C10_CsvRowsRoundTrip ==
    LET chart == chartData
    IN  (lastOp = "ExportClick") =>
        /\ Len(csv) = Len(chart) + 1
        /\ csv[1] = <<Quote("People Count"), Quote("Timestamp (ISO)")>>
        /\ \A k \in 1..Len(csv) :
              /\ Len(csv[k]) = 2
              /\ \A c \in 1..2 : csv[k][c].open = "\"" /\ csv[k][c].close = "\""
        /\ \A i \in 1..Len(chart) :
              /\ csv[i + 1][1].text = ToString(chart[i].value)
              /\ fromISO(csv[i + 1][2].text) = chart[i].timestamp

\* C10 witness: an export of points with different timestamps, one of them
\* with a millisecond part.
C10_Witness ==
    /\ lastOp = "ExportClick"
    /\ Len(csv) = 4
    /\ csv[2][2].text # csv[4][2].text
    /\ csv[2][2].text.micro # 0

\* the Presentation Surface is on screen: the page rendered the client
\* component and it has not been unmounted
SurfaceRendered == page \in {"rendered", "mounted"}

\* the threshold field and (gated variant) the realtime button accept input,
\* and the export button is on screen with them
ControlsUsable ==
    /\ \A t \in Thresholds : ENABLED SetThreshold(t)
    /\ variant = "gated" => ENABLED ToggleClick
    /\ page = "mounted"

\* a step in which a read of the remote table is found to have failed: the
\* page's initial read, or a polling fetch of the mounted component
InitialReadFails == page = "loading" /\ lastOp' = "PageLoad" /\ sideEffect' = "console.error"
PollingReadFails == page = "mounted" /\ \E f \in inflight : Resumes(f) /\ f.status = "error"

\* C11 as stated: after any failed read, the initial one included, the
\* Presentation Surface is rendered.
C11_NoFailureRemovesDashboard ==
    [][ (InitialReadFails \/ PollingReadFails) => SurfaceRendered' ]_vars

\* C11 amended: a failed polling fetch leaves the mounted dashboard rendered,
\* with its timer as it was and its controls usable; a failed initial read
\* renders the error paragraph in place of the dashboard.
C11_PollingFailureKeepsDashboard ==
    /\ [][ /\ PollingReadFails => (page' = "mounted" /\ interval' = interval)
           /\ InitialReadFails => page' = "failed"
         ]_vars
    /\ []((page = "mounted" /\ lastOp = "Resume" /\ sideEffect = "console.error")
            => ControlsUsable)

\* C11 witness: a polling fetch has just failed on the mounted dashboard, the
\* next tick is still scheduled, and a click on the export button produces
\* the document.
C11_Witness ==
    /\ page = "mounted"
    /\ lastOp = "Resume"
    /\ sideEffect = "console.error"
    /\ interval
    /\ ControlsUsable
    /\ ENABLED ExportClick

\* C12: in every reachable state in which at least one fetch is in flight
\* (started, its continuation not yet run) refreshing is true; refreshing is
\* false only when no fetch is in flight.
C12_RefreshingWhileInFlight == inflight # {} => refreshing

\* C13: once the rows of a later-started successful fetch are in dataState,
\* the continuation of an earlier-started successful fetch does not replace
\* them.
C13_ReadingsNeverRegress ==
    [][ \A f \in inflight :
          (Resumes(f) /\ f.status = "ok" /\ f.id < shownFetch) => dataState' = dataState
      ]_vars

=============================================================================
